---------------------------- MODULE Spec2Model ----------------------------
(***************************************************************************)
(* Model of the loudspeaker linearisation pipeline (core/linearizer.py and *)
(* the components it orchestrates).                                        *)
(*                                                                         *)
(* Numeric domain.  Curves in dB are sequences of whole decibels; linear   *)
(* magnitudes are fixed-point integers in units of 1/Scale.  Every float   *)
(* result of the code is quantised toward zero to that grid; 10**(x/20)    *)
(* and 20*log10(x) are computed from a twenty-entry table of 10**(r/20),   *)
(* so a conversion dB -> linear -> dB is not the identity.                 *)
(*                                                                         *)
(* Python values.  None, a missing attribute and an ndarray are records    *)
(* with a tag, so that "is None" and AttributeError are decided as the     *)
(* interpreter decides them.                                               *)
(***************************************************************************)
EXTENDS Integers, Sequences, FiniteSets, TLC

\* ------------------------------------------------------------------ bounds
\* Length of the longest frequency grid a measurement file holds.
GridLen == 3
\* Number of distinct dB levels a measurement sample is drawn from.
NumLevels == 2
\* Number of calls that complete on one Linearizer in a run (a call that
\* raises leaves the instance as it was and is not counted).
MaxCalls == 5
\* Resolution of linear magnitudes: one unit is 1/Scale.
Scale == 1000

\* ------------------------------------------------------------ python values
NoneV == [tag |-> "None", v |-> <<>>]
Unset == [tag |-> "unset", v |-> <<>>]
Arr(s) == [tag |-> "ndarray", v |-> s]
IsNone(x) == x.tag = "None"
IsArr(x) == x.tag = "ndarray"

NoData == [tag |-> "None", frequencies |-> <<>>, db_values |-> <<>>]
NoCoeffs == [tag |-> "None", method |-> "", freqs |-> <<>>, response |-> <<>>]

\* dict.get(key, default)
Get(d, k, default) == IF k \in DOMAIN d THEN d[k] ELSE default

\* str.lower() on the variant names the configurations below use.
Lower(name) ==
    CASE name = "NULL" -> "null"
      [] name = "Butterworth" -> "butterworth"
      [] name = "ERB" -> "erb"
      [] name = "Simple" -> "simple"
      [] name = "FIRLS" -> "firls"
      [] name = "LowPass" -> "lowpass"
      [] OTHER -> name

\* --------------------------------------------------------------- arithmetic
Abs(x) == IF x < 0 THEN -x ELSE x

\* Quotient rounded toward zero (the rounding of a float stored in an int array).
TruncDiv(a, b) == IF a >= 0 THEN a \div b ELSE -((-a) \div b)

RECURSIVE IPow(_, _)
IPow(b, e) == IF e = 0 THEN 1 ELSE b * IPow(b, e - 1)

RECURSIVE SqrtSearch(_, _, _)
SqrtSearch(n, lo, hi) ==
    IF lo >= hi THEN lo
    ELSE LET mid == (lo + hi + 1) \div 2
         IN IF mid * mid <= n THEN SqrtSearch(n, mid, hi)
            ELSE SqrtSearch(n, lo, mid - 1)

\* Integer square root of n >= 0.
ISqrt(n) == SqrtSearch(n, 0, 46340)

SeqMax(s) == CHOOSE m \in {s[i] : i \in DOMAIN s} : \A i \in DOMAIN s : s[i] <= m

\* round(1000 * 10**(r/20)) for r = 0 .. 19
Pow10Table ==
    <<1000, 1122, 1259, 1413, 1585, 1778, 1995, 2239, 2512, 2818,
      3162, 3548, 3981, 4467, 5012, 5623, 6310, 7079, 7943, 8913>>

\* 10 ** (d / 20) in units of 1/Scale, d a whole number of dB.
Pow10(d) ==
    LET q == d \div 20
        r == d % 20
        m == Pow10Table[r + 1] * Scale
    IN IF q >= 0 THEN (m * IPow(10, q)) \div 1000
       ELSE m \div (1000 * IPow(10, -q))

RECURSIVE LogSearch(_, _, _)
LogSearch(x, lo, hi) ==
    IF lo >= hi THEN lo
    ELSE LET mid == (lo + hi + 1) \div 2
         IN IF Pow10(mid) <= x THEN LogSearch(x, mid, hi)
            ELSE LogSearch(x, lo, mid - 1)

\* 20 * log10(x / Scale): the largest whole d with 10**(d/20) <= x, within
\* -80 .. 80 dB (log10(0) = -inf is the lowest level).
Log10Db(x) == LogSearch(x, -80, 80)

\* a / b for fixed-point a, b; a division by zero raises no exception in
\* numpy: a / 0 is inf for a > 0, and 0 / 0 is nan, written -1 here (no
\* magnitude is negative).
DivLin(a, b) ==
    IF b = 0 THEN (IF a = 0 THEN -1 ELSE Pow10(80)) ELSE (a * Scale) \div b

\* ------------------------------------------------------------- call results
Ok(v) == [outcome |-> "ok", value |-> v, detail |-> <<>>]
Raise(e, d) == [outcome |-> e, value |-> NoneV, detail |-> d]

\* ---------------------------------------------------------- curve smoothing
\* sqrt(2) ** (1 / fraction), in thousandths.
FdMilli(fraction) ==
    CASE fraction = 1 -> 1414
      [] fraction = 2 -> 1189
      [] fraction = 3 -> 1122
      [] fraction = 6 -> 1059
      [] OTHER -> 1029

\* frequencies >= f_center / fd  and  frequencies <= f_center * fd
OctaveBand(fraction, f, fc) ==
    /\ f * FdMilli(fraction) >= fc * 1000
    /\ f * 1000 <= fc * FdMilli(fraction)

\* |f - f_center| <= bw / 2  with  bw = 24.7 * (4.37 * f_center / 1000 + 1)
ERBBand(f, fc) == 200000 * Abs(f - fc) <= 2470000 + 10794 * fc

\* Sum and count of the samples mags[1..n] selected by the boolean mask band.
RECURSIVE MaskedSum(_, _, _)
MaskedSum(mags, band, n) ==
    IF n = 0 THEN 0
    ELSE (IF band[n] THEN mags[n] ELSE 0) + MaskedSum(mags, band, n - 1)

RECURSIVE MaskedCount(_, _)
MaskedCount(band, n) ==
    IF n = 0 THEN 0 ELSE (IF band[n] THEN 1 ELSE 0) + MaskedCount(band, n - 1)

BandTotal(mags, band) == MaskedSum(mags, band, Len(mags))

\* np.mean(magnitudes[mask]) stored into zeros_like(magnitudes)
BandMean(mags, band) ==
    TruncDiv(MaskedSum(mags, band, Len(mags)), MaskedCount(band, Len(band)))

NullSmoother_smooth(freqs, mags) == Ok(Arr(mags))

\* fraction = 0 stands for fraction=None (no 'fraction' in smoothing_params):
\* 1 / self.fraction raises TypeError.
FractionalOctaveSmoother_smooth(fraction, freqs, mags) ==
    IF fraction = 0 THEN Raise("TypeError", <<"unsupported operand type(s) for /">>)
    ELSE IF Len(mags) # Len(freqs)
    THEN Raise("IndexError", <<"boolean index did not match">>)
    ELSE Ok(Arr([i \in DOMAIN freqs |->
            BandMean(mags, [j \in DOMAIN freqs |->
                              OctaveBand(fraction, freqs[j], freqs[i])])]))

ERBSmoother_smooth(freqs, mags) ==
    IF Len(mags) # Len(freqs)
    THEN Raise("IndexError", <<"boolean index did not match">>)
    ELSE Ok(Arr([i \in DOMAIN freqs |->
            BandMean(mags, [j \in DOMAIN freqs |-> ERBBand(freqs[j], freqs[i])])]))

\* ICurveSmoother.smooth dispatched on the smoother instance.
Smooth(smoother, freqs, mags) ==
    CASE smoother.type = "null" -> NullSmoother_smooth(freqs, mags)
      [] smoother.type = "octave" ->
            FractionalOctaveSmoother_smooth(smoother.fraction, freqs, mags)
      [] OTHER -> ERBSmoother_smooth(freqs, mags)

\* ------------------------------------------------------------ notch masking
\* scipy.signal.find_peaks: plateau midpoints strictly above both neighbours
\* (never the first or last sample).  Positions are 1-based here.
LocalMaxima(x) ==
    LET n == Len(x)
        IsPlateau(a, b) ==
            /\ a > 1 /\ b < n /\ a <= b
            /\ \A j \in a..b : x[j] = x[a]
            /\ x[a - 1] < x[a] /\ x[b + 1] < x[b]
    IN {(a + b) \div 2 : <<a, b>> \in {ab \in (1..n) \X (1..n) : IsPlateau(ab[1], ab[2])}}

\* scipy peak_prominences: the bases and the prominence of peak p.
PeakBases(x, p) ==
    LET n == Len(x)
        L == {i \in 1..p : \A j \in i..p : x[j] <= x[p]}
        R == {i \in p..n : \A j \in p..i : x[j] <= x[p]}
        lmin == CHOOSE m \in {x[i] : i \in L} : \A i \in L : m <= x[i]
        rmin == CHOOSE m \in {x[i] : i \in R} : \A i \in R : m <= x[i]
        lbase == CHOOSE i \in L : x[i] = lmin /\ \A k \in L : x[k] = lmin => k <= i
        rbase == CHOOSE i \in R : x[i] = rmin /\ \A k \in R : x[k] = rmin => i <= k
    IN [left |-> lbase, right |-> rbase,
        prominence |-> x[p] - (IF lmin > rmin THEN lmin ELSE rmin)]

\* scipy peak_widths, the walk from the peak down to the evaluation height
\* h100 / 100: the first position left (right) of the peak that is the base
\* or lies at or below that height.
LeftCrossing(x, p, left, h100) ==
    CHOOSE i \in left..p :
        /\ (i = left \/ 100 * x[i] <= h100)
        /\ \A k \in (i + 1)..p : ~(k = left \/ 100 * x[k] <= h100)

RightCrossing(x, p, right, h100) ==
    CHOOSE i \in p..right :
        /\ (i = right \/ 100 * x[i] <= h100)
        /\ \A k \in p..(i - 1) : ~(k = right \/ 100 * x[k] <= h100)

\* The interpolated positions left_ips = il + ln/ld and right_ips = ir - rn/rd,
\* as exact fractions.
InterpolatedPositions(x, h100, il, ir) ==
    [il |-> il, ir |-> ir,
     ln |-> IF 100 * x[il] < h100 THEN h100 - 100 * x[il] ELSE 0,
     ld |-> IF 100 * x[il] < h100 THEN 100 * (x[il + 1] - x[il]) ELSE 1,
     rn |-> IF 100 * x[ir] < h100 THEN h100 - 100 * x[ir] ELSE 0,
     rd |-> IF 100 * x[ir] < h100 THEN 100 * (x[ir - 1] - x[ir]) ELSE 1]

WidthAtHeight(x, p, left, right, h100) ==
    InterpolatedPositions(x, h100, LeftCrossing(x, p, left, h100),
                          RightCrossing(x, p, right, h100))

\* height = x[peak] - prominence * rel_height (rel_height in percent)
WidthOfPeak(x, p, rel_pct, b) ==
    WidthAtHeight(x, p, b.left, b.right, 100 * x[p] - b.prominence * rel_pct)

PeakWidth(x, p, rel_pct) == WidthOfPeak(x, p, rel_pct, PeakBases(x, p))

\* The conditions height=min_depth_db, prominence=prominence, width=1 on a
\* peak with bases b and width w.
KeepPeak(x, p, masker, b, w) ==
    /\ x[p] >= masker.min_depth_db
    /\ b.prominence >= masker.prominence
    /\ (w.ir - w.il - 1) * w.ld * w.rd >= w.ln * w.rd + w.rn * w.ld

\* find_peaks(depth, height=min_depth_db, prominence=prominence, width=1,
\*            rel_height=rel_height): the peaks kept.
FindPeaks(x, masker) ==
    {p \in LocalMaxima(x) :
        KeepPeak(x, p, masker, PeakBases(x, p), PeakWidth(x, p, masker.rel_height_pct))}

\* start = max(0, int(np.floor(left))), end = min(len(frequencies),
\* int(np.ceil(right))), as 0-based indices.
MaskStart(w) == IF (w.il - 1) + (w.ln \div w.ld) < 0 THEN 0 ELSE (w.il - 1) + (w.ln \div w.ld)
MaskEnd(w, n) == IF (w.ir - 1) - (w.rn \div w.rd) > n THEN n ELSE (w.ir - 1) - (w.rn \div w.rd)

\* mask[start:end] = False is half-open; position i (1-based) is 0-based i - 1.
InMaskedRange(i, w, n) == MaskStart(w) <= i - 1 /\ i - 1 < MaskEnd(w, n)

KeepMask(masker, freqs, depth, peaks) ==
    [i \in DOMAIN freqs |->
        ~(\E p \in peaks :
            InMaskedRange(i, PeakWidth(depth, p, masker.rel_height_pct), Len(freqs)))]

\* depth = smoothed - magnitudes;  peaks of depth are the notches.
NotchesOf(masker, freqs, depth) ==
    Ok(Arr(KeepMask(masker, freqs, depth, FindPeaks(depth, masker))))

DetectNotchesIn(masker, freqs, mags, sm) ==
    IF sm.outcome # "ok" THEN sm
    ELSE NotchesOf(masker, freqs, [i \in DOMAIN mags |-> sm.value.v[i] - mags[i]])

PromNotchMasker_detect_notches(masker, freqs, mags) ==
    DetectNotchesIn(masker, freqs, mags,
        FractionalOctaveSmoother_smooth(masker.smooth_fraction, freqs, mags))

\* np.where(mask, magnitudes, magnitudes * gain)
AttenuateMasked(mags, m, gain) ==
    IF m.outcome # "ok" THEN m
    ELSE Ok(Arr([i \in DOMAIN mags |->
            IF m.value.v[i] THEN mags[i] ELSE TruncDiv(mags[i] * gain, Scale)]))

\* gain = 10 ** (-attenuation_db / 20)
PromNotchMasker_apply_notch_mask(masker, freqs, mags) ==
    AttenuateMasked(mags, PromNotchMasker_detect_notches(masker, freqs, mags),
                    Pow10(-masker.attenuation_db))

\* The body of NullMasker.apply_notch_mask is "pass": the call returns None.
NullMasker_apply_notch_mask(freqs, mags) == Ok(NoneV)

\* INotchMasker.apply_notch_mask dispatched on the masker instance.
ApplyNotchMask(masker, freqs, mags) ==
    IF masker.type = "null" THEN NullMasker_apply_notch_mask(freqs, mags)
    ELSE PromNotchMasker_apply_notch_mask(masker, freqs, mags)

\* ---------------------------------------------------------------- bandpass
\* |H(f)| of a Butterworth filter of the given order and cutoff (the magnitude
\* scipy's butter/sosfreqz evaluate, by the analogue prototype
\* 1 / sqrt(1 + ratio ** (2 * order))), in units of 1/Scale.
ButterMag(btype, order, fc, f) ==
    IF btype = "highpass" /\ f = 0 THEN 0 ELSE
    LET rr == IF btype = "lowpass" THEN (f * 16) \div fc ELSE (fc * 16) \div f
        q == (IPow(rr, 2 * order) * 100) \div IPow(16, 2 * order)
    IN ISqrt((Scale * Scale * 100) \div (100 + q))

NullBandpass_get_frequency_response(freqs) == [i \in DOMAIN freqs |-> Scale]

\* np.abs(highcut_h * lowcut_h)
ButterworthBandpass_get_frequency_response(bp, freqs) ==
    [i \in DOMAIN freqs |->
        (ButterMag("lowpass", bp.highcut_order, bp.highcut_freq, freqs[i])
         * ButterMag("highpass", bp.lowcut_order, bp.lowcut_freq, freqs[i])) \div Scale]

GetFrequencyResponse(bp, freqs) ==
    IF bp.type = "null" THEN NullBandpass_get_frequency_response(freqs)
    ELSE ButterworthBandpass_get_frequency_response(bp, freqs)

\* ------------------------------------------------------------ target curves
FlatTargetCurve_get_curve(freqs) == [i \in DOMAIN freqs |-> Scale]

\* combined / np.max(combined)
Normalised(combined, peak) == [i \in DOMAIN combined |-> DivLin(combined[i], peak)]

NormaliseCurve(combined) == Normalised(combined, SeqMax(combined))

\* combined = base_curve * bp_response
CombineCurves(base, resp) == [i \in DOMAIN base |-> (base[i] * resp[i]) \div Scale]

TargetCurveDesigner_design_curve(bp, freqs) ==
    NormaliseCurve(CombineCurves(FlatTargetCurve_get_curve(freqs),
                                 GetFrequencyResponse(bp, freqs)))

\* --------------------------------------------------------- inverse response
\* The literal 1e-10 (the default of epsilon and the fixed floor of the
\* Tikhonov denominator) in units of 1/Scale: below the resolution.
Epsilon1e10 == 0

\* Arrays of different lengths (none of length one) do not broadcast.
Broadcasts(a, b) == Len(a) = Len(b) \/ Len(a) = 1 \/ Len(b) = 1

BroadcastError == Raise("ValueError", <<"operands could not be broadcast together">>)

\* target_mag / (measured_lin + params.get('epsilon', 1e-10))
SimpleInverseCurveCalculator_compute(freqs, measured_db, target_mag, params) ==
    IF ~Broadcasts(measured_db, target_mag) THEN BroadcastError
    ELSE Ok(Arr([i \in DOMAIN measured_db |->
            DivLin(target_mag[i],
                   Pow10(measured_db[i]) + Get(params, "epsilon", Epsilon1e10))]))

\* RegularizationFilterFactory.get_filter: an unknown name yields the highpass.
RegularizationFilterFactory_get_filter(filter_type) ==
    IF Lower(filter_type) = "lowpass" THEN "lowpass" ELSE "highpass"

\* Highpass/LowpassRegularizationFilter.get_weight
GetWeight(btype, freqs, params) ==
    IF "cutoff_hz" \notin DOMAIN params THEN Raise("KeyError", <<"cutoff_hz">>)
    ELSE IF "fs" \notin DOMAIN params THEN Raise("KeyError", <<"fs">>)
    ELSE Ok(Arr([i \in DOMAIN freqs |->
            ButterMag(btype, Get(params, "order", 2), params["cutoff_hz"], freqs[i])]))

\* target_mag / (measured_lin + beta * b_weight + 1e-10)
TikhonovInverse(freqs, measured_db, target_mag, beta, w) ==
    IF w.outcome # "ok" THEN w
    ELSE IF ~Broadcasts(measured_db, freqs) \/ ~Broadcasts(measured_db, target_mag)
    THEN BroadcastError
    ELSE Ok(Arr([i \in DOMAIN measured_db |->
            DivLin(target_mag[i],
                   Pow10(measured_db[i]) + (beta * w.value.v[i]) \div Scale
                     + Epsilon1e10)]))

\* beta = params.get('beta', 0.01); the weight of the filter named by
\* params.get('b_filter_type', 'highpass')
TikhonovInverseCalculator_compute(freqs, measured_db, target_mag, params) ==
    TikhonovInverse(freqs, measured_db, target_mag,
        Get(params, "beta", Scale \div 100),
        GetWeight(RegularizationFilterFactory_get_filter(
                      Get(params, "b_filter_type", "highpass")), freqs, params))

\* IInverseCurveCalculator.compute dispatched on the calculator instance.
Compute(calculator, freqs, measured_db, target_mag, params) ==
    IF calculator = "simple"
    THEN SimpleInverseCurveCalculator_compute(freqs, measured_db, target_mag, params)
    ELSE TikhonovInverseCalculator_compute(freqs, measured_db, target_mag, params)

\* ------------------------------------------------------------ configuration
\* The order of required_keys in _validate_config.
RequiredKeys ==
    <<"fs", "fir_taps", "design_method", "bandpass_type", "smoothing_type",
      "inverse_method", "notch_masking_type">>

RequiredKeySet == {RequiredKeys[i] : i \in DOMAIN RequiredKeys}

\* [element for element in required_keys if element not in self.config]
RECURSIVE MissingFrom(_, _)
MissingFrom(keys, config) ==
    IF keys = <<>> THEN <<>>
    ELSE (IF Head(keys) \in DOMAIN config THEN <<>> ELSE <<Head(keys)>>)
         \o MissingFrom(Tail(keys), config)

Unsupported(what, name, available) == Raise("ValueError", <<what, name>> \o available)

BandpassTypes == <<"null", "butterworth">>
SmootherTypes == <<"null", "octave", "erb">>
InverseMethods == <<"simple", "tikhonov">>
MaskerTypes == <<"null", "prominence">>
DesignMethods == <<"firls", "firwin2">>

InSeq(x, s) == \E i \in DOMAIN s : s[i] = x

\* BandpassFactory.get_bandpass: the dict of constructor arguments is built
\* for every type before the class is instantiated.
BandpassFactory_get_bandpass(config) ==
    IF "bandpass_type" \notin DOMAIN config THEN Raise("KeyError", <<"bandpass_type">>)
    ELSE LET t == Lower(config["bandpass_type"])
         IN IF ~InSeq(t, BandpassTypes)
            THEN Unsupported("Unsupported type", t, BandpassTypes)
            ELSE IF "fs" \notin DOMAIN config THEN Raise("KeyError", <<"fs">>)
            ELSE IF "bandpass_params" \notin DOMAIN config
            THEN Raise("KeyError", <<"bandpass_params">>)
            ELSE LET bp == config["bandpass_params"]
                 IN IF t = "butterworth" /\ bp.lowcut_freq >= bp.highcut_freq
                    THEN Raise("ValueError",
                               <<"Highcut frequency must be above Lowcut frequency">>)
                    ELSE Ok([type |-> t, fs |-> config["fs"],
                             lowcut_freq |-> bp.lowcut_freq,
                             highcut_freq |-> bp.highcut_freq,
                             lowcut_order |-> Get(bp, "lowcut_order", 4),
                             highcut_order |-> Get(bp, "highcut_order", 2)])

\* CurveSmootherFactory.get_smoother: config.get('smoothing_params') is None
\* when the key is absent, and None.get raises AttributeError.
CurveSmootherFactory_get_smoother(config) ==
    IF "smoothing_type" \notin DOMAIN config THEN Raise("KeyError", <<"smoothing_type">>)
    ELSE LET t == Lower(config["smoothing_type"])
         IN IF ~InSeq(t, SmootherTypes)
            THEN Unsupported("Unsupported type", t, SmootherTypes)
            ELSE IF "smoothing_params" \notin DOMAIN config
            THEN Raise("AttributeError", <<"NoneType", "get">>)
            ELSE Ok([type |-> t,
                     fraction |-> IF t = "octave"
                                  THEN Get(config["smoothing_params"], "fraction", 0)
                                  ELSE 0])

InverseCurveCalculatorFactory_get_calculator(method) ==
    IF ~InSeq(Lower(method), InverseMethods)
    THEN Unsupported("Unsupported inverse method", method, InverseMethods)
    ELSE Ok(Lower(method))

NullMaskerInstance ==
    [type |-> "null", attenuation_db |-> 0, min_depth_db |-> 0, prominence |-> 0,
     rel_height_pct |-> 0, smooth_fraction |-> 0]

\* NotchMaskerFactory.get_masker: config['notch_masking_params'] is read for
\* every type.
NotchMaskerFactory_get_masker(config) ==
    IF "notch_masking_type" \notin DOMAIN config
    THEN Raise("KeyError", <<"notch_masking_type">>)
    ELSE LET t == Lower(config["notch_masking_type"])
         IN IF ~InSeq(t, MaskerTypes)
            THEN Unsupported("Unsupported type", t, MaskerTypes)
            ELSE IF "notch_masking_params" \notin DOMAIN config
            THEN Raise("KeyError", <<"notch_masking_params">>)
            ELSE IF t = "null" THEN Ok(NullMaskerInstance)
            ELSE LET np == config["notch_masking_params"]
                 IN Ok([type |-> t, attenuation_db |-> np.attenuation_db,
                        min_depth_db |-> np.min_depth_db, prominence |-> np.prominence,
                        rel_height_pct |-> np.rel_height_pct,
                        smooth_fraction |-> np.smooth_fraction])

Linearizer_validate_config(config) ==
    LET missing == MissingFrom(RequiredKeys, config)
    IN IF missing # <<>>
       THEN Raise("ValueError", <<"Missing required config keys">> \o missing)
       ELSE Ok(NoneV)

\* ------------------------------------------------------------- the Linearizer
NoSmoother == [type |-> "null", fraction |-> 0]
NoBandpass ==
    [type |-> "null", fs |-> 0, lowcut_freq |-> 0, highcut_freq |-> 0,
     lowcut_order |-> 0, highcut_order |-> 0]

\* The attributes before __init__ has run (and of an instance whose
\* construction raised: no reference to it exists).
NoLinearizer ==
    [config |-> <<>>, data |-> NoData, smoothed_db_values |-> NoneV,
     target_filter_response_db |-> NoneV, target_mag |-> Unset,
     filter_coeffs |-> NoCoeffs, bandpass |-> NoBandpass, smoother |-> NoSmoother,
     inverse_curve_calculator |-> "", masker |-> NullMaskerInstance]

\* What a stage call yields: the instance afterwards, how the call ended, the
\* value it returned, the curve it consumed and the curve it wrote.
Done(l, value, input, output) ==
    [lin |-> l, outcome |-> "ok", value |-> value, detail |-> <<>>,
     input |-> input, output |-> output]
Failed(l, r) ==
    [lin |-> l, outcome |-> r.outcome, value |-> NoneV, detail |-> r.detail,
     input |-> NoneV, output |-> NoneV]

NoneTypeError(attr) == Raise("AttributeError", <<"NoneType", attr>>)

\* The instance __init__ leaves, or the first exception among the results of
\* the four factories (bp, sm, ic, mk) and of _validate_config (vc).
Constructed(config, bp, sm, ic, mk, vc) ==
    IF bp.outcome # "ok" THEN Failed(NoLinearizer, bp)
    ELSE IF sm.outcome # "ok" THEN Failed(NoLinearizer, sm)
    ELSE IF ic.outcome # "ok" THEN Failed(NoLinearizer, ic)
    ELSE IF mk.outcome # "ok" THEN Failed(NoLinearizer, mk)
    ELSE IF vc.outcome # "ok" THEN Failed(NoLinearizer, vc)
    ELSE Done([NoLinearizer EXCEPT !.config = config,
                   !.bandpass = bp.value, !.smoother = sm.value,
                   !.inverse_curve_calculator = ic.value, !.masker = mk.value],
              NoneV, NoneV, NoneV)

\* Linearizer.__init__: the four factories run before _validate_config.
Linearizer_init(config) ==
    Constructed(config,
        BandpassFactory_get_bandpass(config),
        CurveSmootherFactory_get_smoother(config),
        InverseCurveCalculatorFactory_get_calculator(
            Get(config, "inverse_method", "tikhonov")),
        NotchMaskerFactory_get_masker(config),
        Linearizer_validate_config(config))

\* A load that drops the measurement it held when the file does not load.
LoadDataClearing(l, file) ==
    IF Lower(file.ext) # "json" \/ file.content.tag # "json"
    THEN Failed([l EXCEPT !.data = NoData], Raise("ValueError", <<"JSON loading error">>))
    ELSE Done([l EXCEPT !.data = [tag |-> "SpectrumData",
                                  frequencies |-> file.content.f_hz,
                                  db_values |-> file.content.db]],
              NoneV, NoneV, NoneV)

\* JsonSpectrumDataLoader.supports_format / load, DataLoaderFactory.get_loader
Linearizer_load_data(l, file) ==
    IF Lower(file.ext) # "json"
    THEN Failed(l, Raise("ValueError", <<"Unsupported file format", file.ext>>))
    ELSE IF file.content.tag # "json"
    THEN Failed(l, Raise("ValueError", <<"JSON loading error">>))
    ELSE Done([l EXCEPT !.data = [tag |-> "SpectrumData",
                                  frequencies |-> file.content.f_hz,
                                  db_values |-> file.content.db]],
              NoneV, NoneV, NoneV)

\* A stage input that ignores the shared field.
AlwaysRaw(l) == Arr(l.data.db_values)

\* The curve mask_notches and smooth_data read: the shared field when it is
\* not None, the raw measurement otherwise.
ConditionedOrRaw(l) ==
    IF IsNone(l.target_filter_response_db) THEN Arr(l.data.db_values)
    ELSE l.target_filter_response_db

\* A masking that writes its result into the measurement as well.
StoreMaskedInPlace(l, input, r) ==
    IF r.outcome # "ok" THEN Failed(l, r)
    ELSE Done([l EXCEPT !.target_filter_response_db = r.value,
                        !.data.db_values = IF IsArr(r.value) THEN r.value.v ELSE @],
              NoneV, input, r.value)

\* self.target_filter_response_db = <the masker's result r for input>
StoreMasked(l, input, r) ==
    IF r.outcome # "ok" THEN Failed(l, r)
    ELSE Done([l EXCEPT !.target_filter_response_db = r.value], NoneV, input, r.value)

MaskNotchesOn(l, input) ==
    StoreMasked(l, input, ApplyNotchMask(l.masker, l.data.frequencies, input.v))

Linearizer_mask_notches(l) ==
    IF IsNone(l.data) THEN Failed(l, NoneTypeError("frequencies"))
    ELSE MaskNotchesOn(l, ConditionedOrRaw(l))

\* A smoothing that keeps the smoothing of the shared field as the smoothed
\* measurement.
StoreSmoothedFromField(l, input, r, raw) ==
    IF r.outcome # "ok" THEN Failed(l, r)
    ELSE IF raw.outcome # "ok"
    THEN Failed([l EXCEPT !.target_filter_response_db = r.value], raw)
    ELSE Done([l EXCEPT !.target_filter_response_db = r.value,
                        !.smoothed_db_values = r.value],
              NoneV, input, r.value)

\* The two assignments of smooth_data: the shared field from the smoothing r
\* of input, then smoothed_db_values from the smoothing raw of the measurement.
StoreSmoothed(l, input, r, raw) ==
    IF r.outcome # "ok" THEN Failed(l, r)
    ELSE IF raw.outcome # "ok"
    THEN Failed([l EXCEPT !.target_filter_response_db = r.value], raw)
    ELSE Done([l EXCEPT !.target_filter_response_db = r.value,
                        !.smoothed_db_values = raw.value],
              NoneV, input, r.value)

SmoothDataOn(l, input) ==
    StoreSmoothed(l, input, Smooth(l.smoother, l.data.frequencies, input.v),
                  Smooth(l.smoother, l.data.frequencies, l.data.db_values))

Linearizer_smooth_data(l) ==
    IF IsNone(l.data) THEN Failed(l, NoneTypeError("frequencies"))
    ELSE SmoothDataOn(l, ConditionedOrRaw(l))

\* A target design that also discards the conditioned response.
StoreTargetResetField(l, t) ==
    Done([l EXCEPT !.target_mag = t, !.target_filter_response_db = NoneV], NoneV, NoneV, t)

\* self.target_mag = self.target_curve_designer.design_curve(...)
StoreTarget(l, t) == Done([l EXCEPT !.target_mag = t], NoneV, NoneV, t)

Linearizer_design_target_curve(l) ==
    IF IsNone(l.data) THEN Failed(l, NoneTypeError("frequencies"))
    ELSE StoreTarget(l, Arr(TargetCurveDesigner_design_curve(l.bandpass,
                                                            l.data.frequencies)))

\* 20 * np.log10(inverse_response)
ToDb(mag) == Arr([i \in DOMAIN mag |-> Log10Db(mag[i])])

\* self.target_filter_response_db = 20 * np.log10(inverse_response);
\* return inverse_response
StoreInverseDb(l, input, inverse_response, db) ==
    Done([l EXCEPT !.target_filter_response_db = db], inverse_response, input, db)

StoreInverse(l, input, r) ==
    IF r.outcome # "ok" THEN Failed(l, r)
    ELSE StoreInverseDb(l, input, r.value, ToDb(r.value.v))

InverseOf(l, input) ==
    StoreInverse(l, input,
        Compute(l.inverse_curve_calculator, l.data.frequencies, input.v,
                l.target_mag.v, Get(l.config, "inverse_params", <<>>)))

\* An inversion that falls back to a flat target when none was designed.
InverseWithDefaultTarget(l) ==
    IF IsNone(l.data) THEN Failed(l, NoneTypeError("frequencies"))
    ELSE InverseOf([l EXCEPT !.target_mag =
                       IF @.tag = "unset"
                       THEN Arr(FlatTargetCurve_get_curve(l.data.frequencies)) ELSE @],
                   ConditionedOrRaw(l))

\* calculate_inverse_response: line 88 builds a ValueError without raising it,
\* so with no data the first attribute read of None raises AttributeError;
\* target_mag is no attribute before design_target_curve has run.
Linearizer_calculate_inverse_response(l) ==
    IF IsNone(l.data) THEN Failed(l, NoneTypeError("frequencies"))
    ELSE IF l.target_mag.tag = "unset"
    THEN Failed(l, Raise("AttributeError", <<"Linearizer", "target_mag">>))
    ELSE InverseOf(l, ConditionedOrRaw(l))

\* FirlsDesigner.design / Firwin2Designer.design.  The synthesis itself is
\* scipy's: the coefficients are kept as the magnitude they realise at the
\* design frequencies (an exact fit).
Design(method, freqs, response, numtaps) ==
    IF method = "firls"
    THEN IF IsNone(response)
         THEN Raise("TypeError", <<"NoneType", "not subscriptable">>)
         ELSE IF Len(response.v) # Len(freqs)
         THEN Raise("ValueError", <<"fp and xp are not of the same length">>)
         ELSE IF numtaps % 2 = 0
         THEN Raise("ValueError", <<"numtaps must be odd">>)
         ELSE Ok([tag |-> "coeffs", method |-> method, freqs |-> freqs,
                  response |-> response.v])
    ELSE IF IsNone(response) \/ Len(response.v) # Len(freqs)
         THEN Raise("ValueError", <<"freq and gain must be of same length">>)
         ELSE Ok([tag |-> "coeffs", method |-> method, freqs |-> freqs,
                  response |-> response.v])

\* self.filter_coeffs = designer.design(...)
StoreCoeffs(l, inverse_response, r) ==
    IF r.outcome # "ok" THEN Failed(l, r)
    ELSE Done([l EXCEPT !.filter_coeffs = r.value], NoneV, inverse_response, NoneV)

\* FilterDesignerFactory.get_designer(method), then design
DesignWith(l, method, inverse_response) ==
    IF ~InSeq(Lower(method), DesignMethods)
    THEN Failed(l, Unsupported("Unsupported method", method, DesignMethods))
    ELSE IF IsNone(l.data) THEN Failed(l, NoneTypeError("frequencies"))
    ELSE StoreCoeffs(l, inverse_response,
             Design(Lower(method), l.data.frequencies, inverse_response,
                    l.config["fir_taps"]))

Linearizer_design_filter(l, inverse_response) ==
    DesignWith(l, l.config["design_method"], inverse_response)

\* |h| of scipy.signal.freqz at frequency f: the designed magnitude there, the
\* last designed value beyond the design grid.
FreqzMag(coeffs, f) ==
    IF \E j \in DOMAIN coeffs.freqs : coeffs.freqs[j] = f
    THEN coeffs.response[CHOOSE j \in DOMAIN coeffs.freqs : coeffs.freqs[j] = f]
    ELSE coeffs.response[Len(coeffs.response)]

\* 20 * np.log10(np.abs(h)) over the measurement grid
FilterDb(l) ==
    [i \in DOMAIN l.data.frequencies |->
        Log10Db(FreqzMag(l.filter_coeffs, l.data.frequencies[i]))]

\* filter_db - field when the field is not None, filter_db + db_values otherwise
Equalized(l, hdb, f) ==
    IF ~IsNone(f)
    THEN IF ~Broadcasts(hdb, f.v) THEN Failed(l, BroadcastError)
         ELSE Done(l, Arr([i \in DOMAIN hdb |-> hdb[i] - f.v[i]]), f, NoneV)
    ELSE Done(l, Arr([i \in DOMAIN hdb |-> hdb[i] + l.data.db_values[i]]),
              Arr(l.data.db_values), NoneV)

Linearizer_simulate_response(l) ==
    IF IsNone(l.data) THEN Failed(l, NoneTypeError("frequencies"))
    ELSE IF IsNone(l.filter_coeffs)
    THEN Failed(l, Raise("TypeError", <<"NoneType", "freqz">>))
    ELSE Equalized(l, FilterDb(l), l.target_filter_response_db)

\* ResponsePlotter.plot: matplotlib refuses a None curve and curves whose
\* length is not that of the frequency axis.
PlotCurves(l, curves) ==
    IF \E c \in curves : IsNone(c)
    THEN Failed(l, Raise("ValueError", <<"x, y, and format string must not be None">>))
    ELSE IF \E c \in curves : Len(c.v) # Len(l.data.frequencies)
    THEN Failed(l, Raise("ValueError", <<"x and y must have same first dimension">>))
    ELSE Done(l, NoneV, NoneV, NoneV)

Linearizer_plot_results(l, equalized_db) ==
    IF IsNone(l.data) THEN Failed(l, NoneTypeError("frequencies"))
    ELSE PlotCurves(l, {l.smoothed_db_values, l.target_filter_response_db, equalized_db})

\* An export that writes whatever filter_coeffs holds.
ExportWithoutCoeffs(l, filepath) ==
    IF Lower(filepath.ext) # "wav"
    THEN Failed(l, Unsupported("Unsupported format", filepath.ext, <<"wav">>))
    ELSE Done(l, NoneV, NoneV, NoneV)

\* FilterExporter.export / WavExporter.export
Linearizer_export_results(l, filepath) ==
    IF Lower(filepath.ext) # "wav"
    THEN Failed(l, Unsupported("Unsupported format", filepath.ext, <<"wav">>))
    ELSE IF IsNone(l.filter_coeffs) THEN Failed(l, NoneTypeError("astype"))
    ELSE Done(l, NoneV, NoneV, NoneV)

\* ------------------------------------------------------------------ inputs
\* The frequency grids of the measurement files: 100 Hz, 110 Hz, ...
Grid(n) == [i \in 1..n |-> 90 + 10 * i]

Level(k) ==
    CASE k = 1 -> 0
      [] k = 2 -> -20
      [] k = 3 -> -6
      [] OTHER -> 12

DbLevels == {Level(k) : k \in 1..NumLevels}

JsonFile(db) ==
    [ext |-> "json", content |-> [tag |-> "json", f_hz |-> Grid(Len(db)), db |-> db]]

\* A measurement with a one-bin dip at the second frequency.
NotchDb(n) == [i \in 1..n |-> IF i = 2 THEN Level(2) ELSE Level(1)]

\* A file of another format and a .json file that does not parse.
BadFiles ==
    {[ext |-> "csv", content |-> [tag |-> "json", f_hz |-> Grid(2), db |-> <<0, 0>>]],
     [ext |-> "json", content |-> [tag |-> "garbage", f_hz |-> <<>>, db |-> <<>>]]}

\* The files of one run: a measurement on the long grid, one on a shorter
\* grid, and the two files that do not load.
FilesWith(db) == {JsonFile(db), JsonFile(NotchDb(GridLen - 1))} \cup BadFiles

ExportPaths == {[ext |-> "wav"], [ext |-> "txt"]}

BandpassParams ==
    [lowcut_freq |-> 105, highcut_freq |-> 125, lowcut_order |-> 2, highcut_order |-> 1]

NotchMaskingParams ==
    [attenuation_db |-> 10, min_depth_db |-> 6, prominence |-> 3,
     rel_height_pct |-> 50, smooth_fraction |-> 3]

InverseParams ==
    [beta |-> Scale \div 10, b_filter_type |-> "highpass", cutoff_hz |-> 120,
     order |-> 2, fs |-> 48000]

\* A complete configuration (the shape of the one in main.py).
Config(bandpass, smoothing, inverse, masking, design, inverse_params) ==
    [fs |-> 48000, fir_taps |-> 255, design_method |-> design,
     bandpass_type |-> bandpass, bandpass_params |-> BandpassParams,
     smoothing_type |-> smoothing, smoothing_params |-> [fraction |-> 1],
     inverse_method |-> inverse, inverse_params |-> inverse_params,
     notch_masking_type |-> masking, notch_masking_params |-> NotchMaskingParams]

\* The configurations of the pipeline runs: every supported variant.
PipelineConfigs ==
    {Config(b, s, i, m, "firls", InverseParams) :
        b \in {"null", "butterworth"}, s \in {"null", "octave", "erb"},
        i \in {"simple", "tikhonov"}, m \in {"null", "prominence"}}

\* The configuration of main.py and its counterpart with the other variants.
FocusConfigs ==
    {Config("butterworth", "erb", "tikhonov", "prominence", "firls", InverseParams),
     Config("null", "octave", "simple", "prominence", "firls", InverseParams)}

\* The measurements with at most one sample off the reference level.
SingleDipCurves ==
    {[i \in 1..GridLen |-> IF i = k THEN l ELSE Level(1)] : k \in 1..GridLen, l \in DbLevels}

\* The runs of the pipeline: every configuration on the notch measurement,
\* and the two focus configurations on every single-dip measurement.
PipelineInputs ==
    {<<c, FilesWith(NotchDb(GridLen))>> : c \in PipelineConfigs}
    \cup {<<c, FilesWith(db)>> : c \in FocusConfigs, db \in SingleDipCurves}

\* ------------------------------------------------------------------- state
VARIABLES
    config,   \* the dict the caller passes to Linearizer(config)
    files,    \* the files load_data can be pointed at
    phase,    \* "new", "ready" (constructed) or "failed" (__init__ raised)
    lin,      \* the attributes of the Linearizer instance
    ret,      \* the last call: its name, how it ended, what it read and wrote
    hist,     \* history: producer stages completed, last mask/smooth output,
              \* whether the last two calls were the same stage, both completed,
              \* whether they were mask_notches and smooth_data, both completed,
              \* whether smooth_data has completed at all
    caller,   \* the caller's locals inverse_response and equalized_db
    calls,    \* number of stage calls completed
    probe,    \* a direct call of a component: its arguments and what it returned
    peer      \* a second Linearizer of the same process: its configuration,
              \* its attributes and the locals of its caller

vars == <<config, files, phase, lin, ret, hist, caller, calls, probe, peer>>

\* No second instance has been created.
NoPeer ==
    [phase |-> "none", config |-> <<>>, lin |-> NoLinearizer,
     caller |-> [inverse_response |-> NoneV, equalized_db |-> NoneV]]

\* No component has been called directly.
NoProbe ==
    [fn |-> "", frequencies |-> <<>>, magnitudes |-> <<>>, target_mag |-> <<>>,
     params |-> <<>>, result |-> Raise("", <<>>), other |-> Raise("", <<>>)]

NoCall ==
    [op |-> "", outcome |-> "", value |-> NoneV, detail |-> <<>>,
     input |-> NoneV, output |-> NoneV]

CallOf(op, r) ==
    [op |-> op, outcome |-> r.outcome, value |-> r.value, detail |-> r.detail,
     input |-> r.input, output |-> r.output]

ProducerStages ==
    {"load_data", "design_target_curve", "calculate_inverse_response", "design_filter"}

ConditioningStages == {"mask_notches", "smooth_data"}

NoHistory ==
    [completed |-> {}, conditioned |-> NoneV, repeat |-> FALSE, chained |-> FALSE,
     smoothed |-> FALSE]

InitWith(inputs) ==
    /\ \E in \in inputs : config = in[1] /\ files = in[2]
    /\ phase = "new"
    /\ lin = NoLinearizer
    /\ ret = NoCall
    /\ hist = NoHistory
    /\ caller = [inverse_response |-> NoneV, equalized_db |-> NoneV]
    /\ calls = 0
    /\ probe = NoProbe
    /\ peer = NoPeer

Init == InitWith(PipelineInputs)

\* The instance and the record of the call after __init__ ended as r.
Constructing(r) ==
    /\ phase' = IF r.outcome = "ok" THEN "ready" ELSE "failed"
    /\ lin' = r.lin
    /\ ret' = CallOf("__init__", r)

\* linearizer = Linearizer(config)
Construct ==
    /\ phase = "new"
    /\ Constructing(Linearizer_init(config))
    /\ UNCHANGED <<config, files, hist, caller, calls, probe, peer>>

\* The bookkeeping of one stage call whose result is r.
Call(op, r) ==
    /\ phase = "ready"
    /\ calls < MaxCalls
    /\ lin' = r.lin
    /\ ret' = CallOf(op, r)
    /\ hist' = [completed |-> IF r.outcome = "ok" /\ op \in ProducerStages
                              THEN hist.completed \cup {op} ELSE hist.completed,
                conditioned |-> IF r.outcome = "ok" /\ op \in ConditioningStages
                                THEN r.output ELSE hist.conditioned,
                repeat |-> ret.op = op /\ ret.outcome = "ok" /\ r.outcome = "ok",
                chained |-> /\ ret.op \in ConditioningStages \ {op}
                            /\ op \in ConditioningStages
                            /\ ret.outcome = "ok" /\ r.outcome = "ok",
                smoothed |-> hist.smoothed \/ (op = "smooth_data" /\ r.outcome = "ok")]
    /\ calls' = IF r.outcome = "ok" THEN calls + 1 ELSE calls
    /\ UNCHANGED <<config, files, phase, probe, peer>>

LoadData ==
    /\ \E f \in files : Call("load_data", Linearizer_load_data(lin, f))
    /\ UNCHANGED caller

MaskNotches ==
    /\ Call("mask_notches", Linearizer_mask_notches(lin))
    /\ UNCHANGED caller

SmoothData ==
    /\ Call("smooth_data", Linearizer_smooth_data(lin))
    /\ UNCHANGED caller

DesignTargetCurve ==
    /\ Call("design_target_curve", Linearizer_design_target_curve(lin))
    /\ UNCHANGED caller

\* A call whose return value the caller binds to one of its locals.
CallBinding(op, r, local) ==
    /\ Call(op, r)
    /\ caller' = IF r.outcome = "ok" THEN [caller EXCEPT ![local] = r.value] ELSE caller

\* inverse_response = linearizer.calculate_inverse_response()
CalculateInverseResponse ==
    CallBinding("calculate_inverse_response",
                Linearizer_calculate_inverse_response(lin), "inverse_response")

\* linearizer.design_filter(inverse_response)
DesignFilter ==
    /\ Call("design_filter", Linearizer_design_filter(lin, caller.inverse_response))
    /\ UNCHANGED caller

\* equalized_db = linearizer.simulate_response()
SimulateResponse ==
    CallBinding("simulate_response", Linearizer_simulate_response(lin), "equalized_db")

\* linearizer.plot_results(equalized_db)
PlotResults ==
    /\ Call("plot_results", Linearizer_plot_results(lin, caller.equalized_db))
    /\ UNCHANGED caller

ExportResults ==
    /\ \E path \in ExportPaths :
          Call("export_results", Linearizer_export_results(lin, path))
    /\ UNCHANGED caller

Next ==
    \/ Construct
    \/ LoadData
    \/ MaskNotches
    \/ SmoothData
    \/ DesignTargetCurve
    \/ CalculateInverseResponse
    \/ DesignFilter
    \/ SimulateResponse
    \/ PlotResults
    \/ ExportResults

Spec == Init /\ [][Next]_vars

\* ------------------------------------------------- construction from any config
\* The configuration of main.py.
MainConfig == Config("butterworth", "erb", "tikhonov", "prominence", "firls", InverseParams)

OptionalKeys ==
    {"bandpass_params", "smoothing_params", "inverse_params", "notch_masking_params"}

\* The dict c without the given keys.
Without(c, keys) == [k \in (DOMAIN c) \ keys |-> c[k]]

\* main.py's configuration with any subset of the required keys, or one of
\* the parameter dicts, left out.
MissingKeyConfigs ==
    {Without(MainConfig, ks) : ks \in SUBSET RequiredKeySet}
    \cup {Without(MainConfig, {k}) : k \in OptionalKeys}

\* main.py's configuration with the variant name of one axis replaced: by a
\* name no factory knows, or by a supported name in another case.
VariantConfigs ==
    {[MainConfig EXCEPT !.bandpass_type = n] : n \in {"chebyshev", "NULL", "Butterworth"}}
    \cup {[MainConfig EXCEPT !.smoothing_type = n] : n \in {"median", "ERB"}}
    \cup {[MainConfig EXCEPT !.inverse_method = n] : n \in {"wiener", "Simple"}}
    \cup {[MainConfig EXCEPT !.notch_masking_type = n] : n \in {"threshold", "NULL"}}
    \cup {[MainConfig EXCEPT !.design_method = n] : n \in {"remez", "FIRLS"}}
    \cup {[MainConfig EXCEPT !.inverse_params = [InverseParams EXCEPT !.b_filter_type = n]] :
             n \in {"lowpass", "LowPass", "bandstop"}}
    \cup {[MainConfig EXCEPT !.inverse_params = Without(InverseParams, {"b_filter_type"})]}

\* A passband whose lower edge is not below its upper edge.
ReversedBandConfigs ==
    {[MainConfig EXCEPT !.bandpass_params =
          [BandpassParams EXCEPT !.lowcut_freq = 125, !.highcut_freq = 105]]}

ConfigInputs ==
    {<<c, FilesWith(NotchDb(GridLen))>> :
        c \in MissingKeyConfigs \cup VariantConfigs \cup ReversedBandConfigs}

InitConfig == InitWith(ConfigInputs)

SpecConfig == InitConfig /\ [][Next]_vars

\* ------------------------------------------------- components called directly
\* The keyword arguments of compute: beta, the weight filter, and optionally
\* epsilon.
ComputeParams ==
    LET base == {[InverseParams EXCEPT !.beta = b, !.b_filter_type = t] :
                    b \in {0, Scale \div 10}, t \in {"highpass", "lowpass"}}
    IN base \cup {pr @@ [epsilon |-> e] :
                    pr \in base, e \in {0, Scale \div 100, Scale \div 10}}

\* The measured curves: every curve over the dB levels on the longest grid.
Curves == [1..GridLen -> DbLevels]

\* The target curves: flat, and the main.py passband.
TargetCurves ==
    {TargetCurveDesigner_design_curve(bp, Grid(GridLen)) :
        bp \in {NoBandpass,
                [type |-> "butterworth", fs |-> 48000, lowcut_freq |-> 105,
                 highcut_freq |-> 125, lowcut_order |-> 2, highcut_order |-> 1]}}

\* The same curves 32 dB up: measurements whose levels are positive.
RaisedCurves == {[i \in 1..GridLen |-> m[i] + 32] : m \in Curves}

ProbeInputs ==
    {[NoProbe EXCEPT !.fn = "compute", !.frequencies = Grid(GridLen),
                     !.magnitudes = m, !.target_mag = t, !.params = pr] :
        m \in Curves, t \in TargetCurves, pr \in ComputeParams}
    \cup {[NoProbe EXCEPT !.fn = "apply_notch_mask", !.frequencies = Grid(GridLen),
                          !.magnitudes = m] : m \in Curves}
    \cup {[NoProbe EXCEPT !.fn = "prominence", !.frequencies = Grid(GridLen),
                          !.magnitudes = m,
                          !.params = NotchMaskerFactory_get_masker(MainConfig).value] :
             m \in Curves \cup RaisedCurves}
    \cup {[NoProbe EXCEPT !.fn = "smooth", !.frequencies = Grid(GridLen),
                          !.magnitudes = m, !.params = sm] :
             m \in Curves \cup RaisedCurves \cup {SubSeq(NotchDb(GridLen), 1, GridLen - 1)},
             sm \in {[type |-> "null", fraction |-> 0],
                     [type |-> "octave", fraction |-> 1],
                     [type |-> "octave", fraction |-> 3],
                     [type |-> "erb", fraction |-> 0]}}
    \cup {[NoProbe EXCEPT !.fn = "design_curve", !.frequencies = f, !.params = bp] :
             f \in {Grid(n) : n \in 1..GridLen}
                   \cup {[i \in 1..n |-> 0] : n \in 1..GridLen}
                   \cup {<<0>> \o Grid(n) : n \in 1..GridLen},
             bp \in {NoBandpass, BandpassFactory_get_bandpass(MainConfig).value,
                     [type |-> "butterworth", fs |-> 48000, lowcut_freq |-> 105,
                      highcut_freq |-> 125, lowcut_order |-> 2, highcut_order |-> 1]}}

InitProbe ==
    /\ probe \in ProbeInputs
    /\ config = MainConfig
    /\ files = {}
    /\ phase = "probe"
    /\ lin = NoLinearizer
    /\ ret = NoCall
    /\ hist = NoHistory
    /\ caller = [inverse_response |-> NoneV, equalized_db |-> NoneV]
    /\ calls = 0
    /\ peer = NoPeer

\* TikhonovInverseCalculator().compute(frequencies, measured_db, target_mag, **params)
ComputeTikhonov ==
    /\ probe.fn = "compute"
    /\ probe.result.outcome = ""
    /\ probe' = [probe EXCEPT !.result =
          TikhonovInverseCalculator_compute(probe.frequencies, probe.magnitudes,
                                            probe.target_mag, probe.params)]
    /\ UNCHANGED <<config, files, phase, lin, ret, hist, caller, calls, peer>>

\* SimpleInverseCurveCalculator().compute(frequencies, measured_db, target_mag, **params)
ComputeSimple ==
    /\ probe.fn = "compute"
    /\ probe.other.outcome = ""
    /\ probe' = [probe EXCEPT !.other =
          SimpleInverseCurveCalculator_compute(probe.frequencies, probe.magnitudes,
                                               probe.target_mag, probe.params)]
    /\ UNCHANGED <<config, files, phase, lin, ret, hist, caller, calls, peer>>

\* NullMasker().apply_notch_mask(frequencies, magnitudes)
ApplyNullMask ==
    /\ probe.fn = "apply_notch_mask"
    /\ probe.result.outcome = ""
    /\ probe' = [probe EXCEPT !.result =
          NullMasker_apply_notch_mask(probe.frequencies, probe.magnitudes)]
    /\ UNCHANGED <<config, files, phase, lin, ret, hist, caller, calls, peer>>

\* PromNotchMasker(**notch_masking_params)._detect_notches(frequencies, magnitudes)
DetectNotches ==
    /\ probe.fn = "prominence"
    /\ probe.other.outcome = ""
    /\ probe' = [probe EXCEPT !.other =
          PromNotchMasker_detect_notches(probe.params, probe.frequencies,
                                         probe.magnitudes)]
    /\ UNCHANGED <<config, files, phase, lin, ret, hist, caller, calls, peer>>

\* PromNotchMasker(**notch_masking_params).apply_notch_mask(frequencies, magnitudes)
ApplyPromMask ==
    /\ probe.fn = "prominence"
    /\ probe.result.outcome = ""
    /\ probe' = [probe EXCEPT !.result =
          PromNotchMasker_apply_notch_mask(probe.params, probe.frequencies,
                                           probe.magnitudes)]
    /\ UNCHANGED <<config, files, phase, lin, ret, hist, caller, calls, peer>>

\* smoother.smooth(frequencies, magnitudes) on a smoother of each kind
SmoothCurve ==
    /\ probe.fn = "smooth"
    /\ probe.result.outcome = ""
    /\ probe' = [probe EXCEPT !.result =
          Smooth(probe.params, probe.frequencies, probe.magnitudes)]
    /\ UNCHANGED <<config, files, phase, lin, ret, hist, caller, calls, peer>>

\* TargetCurveDesigner(FlatTargetCurve(), bandpass).design_curve(frequencies)
DesignCurve ==
    /\ probe.fn = "design_curve"
    /\ probe.result.outcome = ""
    /\ probe' = [probe EXCEPT !.result =
          Ok(Arr(TargetCurveDesigner_design_curve(probe.params, probe.frequencies)))]
    /\ UNCHANGED <<config, files, phase, lin, ret, hist, caller, calls, peer>>

NextProbe ==
    \/ ComputeTikhonov
    \/ ComputeSimple
    \/ ApplyNullMask
    \/ DetectNotches
    \/ ApplyPromMask
    \/ SmoothCurve
    \/ DesignCurve

SpecProbe == InitProbe /\ [][NextProbe]_vars

\* ------------------------------------------------------------------ properties
InvertOp == "calculate_inverse_response"

\* The conditioned response a caller has produced, if any: the last output of
\* mask_notches / smooth_data, else the raw measurement.
ConditionedOrRawMeasurement ==
    IF ~IsNone(hist.conditioned) THEN hist.conditioned ELSE Arr(lin.data.db_values)

\* C1: an invert call produces an inverse response only if design_target_curve
\* has completed earlier on the instance; called when no target curve exists
\* it ends with an error, returns nothing and leaves the conditioned-response
\* field (and the caller's inverse_response) as they were.
C1_InvertNeedsTarget ==
    [][ret'.op = InvertOp =>
          /\ (ret'.outcome = "ok" => "design_target_curve" \in hist.completed)
          /\ ("design_target_curve" \notin hist.completed =>
                /\ ret'.outcome \notin {"ok", ""}
                /\ IsNone(ret'.value)
                /\ lin'.target_filter_response_db = lin.target_filter_response_db
                /\ caller' = caller)]_vars

\* C1, the case: invert was called on loaded data before any target curve was
\* designed and raised on the missing attribute.
C1_InvertBeforeTarget ==
    /\ ret.op = InvertOp
    /\ "load_data" \in hist.completed
    /\ "design_target_curve" \notin hist.completed
    /\ ret.outcome = "AttributeError"
    /\ ret.detail = <<"Linearizer", "target_mag">>

\* C2: constructing from a configuration that lacks any required key fails
\* with the validation error that lists every missing key.
C2_MissingKeysListed ==
    (phase # "new" /\ RequiredKeySet \ DOMAIN config # {}) =>
        /\ phase = "failed"
        /\ ret.outcome = "ValueError"
        /\ ret.detail # <<>>
        /\ ret.detail[1] = "Missing required config keys"
        /\ \A k \in RequiredKeySet \ DOMAIN config : InSeq(k, ret.detail)

\* C2, the case: a required key a factory reads is missing and construction
\* ends in that factory's KeyError.
C2_KeyErrorFromFactory ==
    /\ phase = "failed"
    /\ "bandpass_type" \notin DOMAIN config
    /\ ret.op = "__init__"
    /\ ret.outcome = "KeyError"
    /\ ret.detail = <<"bandpass_type">>

\* The stage op applied to the curve x by the components of l.
Applied(op, l, x) ==
    IF op = "mask_notches" THEN ApplyNotchMask(l.masker, l.data.frequencies, x.v)
    ELSE Smooth(l.smoother, l.data.frequencies, x.v)

\* C3: when mask_notches and smooth_data run in sequence, in either order and
\* for every masker and smoother, the second takes the first's output as its
\* input and the field afterwards holds the second applied to that output.
C3_SecondConsumesFirst ==
    [][hist'.chained =>
          /\ ret'.input = ret.output
          /\ Ok(lin'.target_filter_response_db) = Applied(ret'.op, lin, ret.output)]_vars

\* C3, the case: smooth_data ran right after mask_notches under the null
\* masker and read the raw measurement, the mask's output being None.
C3_SmoothAfterNullMask ==
    /\ hist.chained
    /\ ret.op = "smooth_data"
    /\ lin.masker.type = "null"
    /\ ret.input = Arr(lin.data.db_values)

\* C4: the null masker returns its input magnitudes unchanged.
C4_NullMaskerPassThrough ==
    (probe.fn = "apply_notch_mask" /\ probe.result.outcome # "") =>
        probe.result = Ok(Arr(probe.magnitudes))

\* C4, the case: the null masker was applied to a curve with a notch and
\* returned None.
C4_NullMaskerReturnsNone ==
    /\ probe.fn = "apply_notch_mask"
    /\ probe.magnitudes = NotchDb(GridLen)
    /\ probe.result = Ok(NoneV)

\* C5: the curve invert inverts is the conditioned response when one is
\* present and the raw measurement otherwise.
C5_InvertsMeasurement ==
    (ret.op = InvertOp /\ ret.outcome = "ok") => ret.input = ConditionedOrRawMeasurement

\* C5, the case: invert ran twice in a row with no conditioning stage, and the
\* second run inverted something other than the raw measurement.
C5_InvertsOwnOutput ==
    /\ ret.op = InvertOp
    /\ ret.outcome = "ok"
    /\ hist.repeat
    /\ IsNone(hist.conditioned)
    /\ ret.input # Arr(lin.data.db_values)

\* C6: simulate_response returns the filter's magnitude response in dB
\* combined (added or subtracted) with the conditioned measurement if one is
\* present, with the raw measurement otherwise.
C6_SimulateCombinesMeasurement ==
    (ret.op = "simulate_response" /\ ret.outcome = "ok") =>
        /\ Len(ret.value.v) = Len(ConditionedOrRawMeasurement.v)
        /\ \/ \A i \in DOMAIN ret.value.v :
                 ret.value.v[i] = FilterDb(lin)[i] + ConditionedOrRawMeasurement.v[i]
           \/ \A i \in DOMAIN ret.value.v :
                 ret.value.v[i] = FilterDb(lin)[i] - ConditionedOrRawMeasurement.v[i]

\* C6, the case: simulate_response completed with no conditioning stage run,
\* and what it combined with the filter response was not the raw measurement.
C6_SimulateUsesInverse ==
    /\ ret.op = "simulate_response"
    /\ ret.outcome = "ok"
    /\ IsNone(hist.conditioned)
    /\ ret.input # Arr(lin.data.db_values)

RerunStages == {"mask_notches", "smooth_data", "design_target_curve", InvertOp}

\* C7 as stated: the same stage twice in a row leaves the state, and returns
\* the result, of running it once.
C7_RerunIdempotent ==
    [][(hist'.repeat /\ ret'.op \in RerunStages) =>
          lin' = lin /\ ret'.value = ret.value]_vars

\* C7 amended: a re-run of design_target_curve, of mask_notches under the null
\* masker and of smooth_data under the null smoother leaves the state and the
\* result of the first run; a re-run of mask_notches or smooth_data under any
\* other variant is applied to the curve the first run wrote.
C7_RerunChains ==
    [][hist'.repeat =>
          /\ (\/ ret'.op = "design_target_curve"
              \/ (ret'.op = "mask_notches" /\ lin.masker.type = "null")
              \/ (ret'.op = "smooth_data" /\ lin.smoother.type = "null"))
             => (lin' = lin /\ ret'.value = ret.value)
          /\ (\/ (ret'.op = "mask_notches" /\ lin.masker.type # "null")
              \/ (ret'.op = "smooth_data" /\ lin.smoother.type # "null"))
             => /\ ret'.input = ret.output
                /\ Ok(lin'.target_filter_response_db) = Applied(ret'.op, lin, ret.output)]_vars

\* C7, the case: smooth_data ran twice in a row under the ERB smoother and the
\* second run changed the curve the first had written.
C7_SmoothedTwice ==
    /\ hist.repeat
    /\ ret.op = "smooth_data"
    /\ lin.smoother.type = "erb"
    /\ ret.output # ret.input

\* The variant names each axis accepts.
Supported(axis) ==
    CASE axis = "bandpass_type" -> BandpassTypes
      [] axis = "smoothing_type" -> SmootherTypes
      [] axis = "inverse_method" -> InverseMethods
      [] axis = "notch_masking_type" -> MaskerTypes
      [] axis = "design_method" -> DesignMethods
      [] OTHER -> <<"highpass", "lowpass">>

NamesAlternatives(axis) ==
    ret.outcome = "ValueError" /\ \A i \in DOMAIN Supported(axis) : InSeq(Supported(axis)[i], ret.detail)

HasUnsupported(d, axis) == axis \in DOMAIN d /\ ~InSeq(Lower(d[axis]), Supported(axis))

\* C8: an unsupported variant name on any axis is rejected with an error
\* naming the supported alternatives, at construction (the four component
\* axes) or at first use (design_method in design_filter, b_filter_type in the
\* Tikhonov inversion); none is replaced by a default.
C8_UnsupportedRejected ==
    /\ \A axis \in {"bandpass_type", "smoothing_type", "inverse_method", "notch_masking_type"} :
          (phase # "new" /\ HasUnsupported(config, axis)) =>
              (phase = "failed" /\ NamesAlternatives(axis))
    /\ (ret.op = "design_filter" /\ HasUnsupported(config, "design_method")) =>
          NamesAlternatives("design_method")
    /\ (/\ ret.op = InvertOp
        /\ lin.inverse_curve_calculator = "tikhonov"
        /\ "inverse_params" \in DOMAIN config
        /\ HasUnsupported(config["inverse_params"], "b_filter_type")
        /\ ret.outcome \notin {"AttributeError"})
       => NamesAlternatives("b_filter_type")

\* C8, the case: the Tikhonov inversion completed under a b_filter_type no
\* filter class is registered for.
C8_UnknownFilterAccepted ==
    /\ ret.op = InvertOp
    /\ ret.outcome = "ok"
    /\ lin.inverse_curve_calculator = "tikhonov"
    /\ "inverse_params" \in DOMAIN config
    /\ HasUnsupported(config["inverse_params"], "b_filter_type")

\* C9: with beta = 0 the tikhonov method returns what the simple method
\* returns for the same keyword arguments (the same epsilon).
C9_TikhonovBetaZeroIsSimple ==
    (/\ probe.fn = "compute"
     /\ probe.result.outcome # ""
     /\ probe.other.outcome # ""
     /\ probe.params.beta = 0) => probe.result = probe.other

\* C9, the case: both methods completed for beta = 0 and epsilon = 0.01 and
\* returned different responses.
C9_EpsilonIgnored ==
    /\ probe.fn = "compute"
    /\ probe.params.beta = 0
    /\ "epsilon" \in DOMAIN probe.params
    /\ probe.params.epsilon = Scale \div 100
    /\ probe.result.outcome = "ok"
    /\ probe.other.outcome = "ok"
    /\ probe.result # probe.other

\* C10: no stage call other than load_data changes the loaded measurement
\* or the configuration, nor the components built at construction: a stage
\* writes only the intermediate-state fields.
C10_StagesKeepDataAndConfig ==
    [][ret'.op \notin {"load_data", "__init__"} =>
          /\ lin'.data = lin.data
          /\ lin'.config = lin.config
          /\ config' = config
          /\ lin'.bandpass = lin.bandpass
          /\ lin'.smoother = lin.smoother
          /\ lin'.masker = lin.masker
          /\ lin'.inverse_curve_calculator = lin.inverse_curve_calculator]_vars

\* C10, the case: mask_notches read the raw measurement, wrote a different
\* curve into the field, and the measurement is the one the file holds.
C10_MaskedButDataIntact ==
    /\ ret.op = "mask_notches"
    /\ ret.outcome = "ok"
    /\ lin.masker.type = "prominence"
    /\ ret.input = Arr(lin.data.db_values)
    /\ IsArr(ret.output)
    /\ ret.output # ret.input
    /\ \E f \in files : f.content.db = lin.data.db_values

\* The stages whose completion each stage needs: the producers of the fields
\* (and of the caller's argument) it reads.
Producers(op) ==
    CASE op \in {"mask_notches", "smooth_data", "design_target_curve"} -> {"load_data"}
      [] op = "design_filter" -> {"load_data", InvertOp}
      [] op \in {"simulate_response", "export_results"} -> {"design_filter"}
      [] OTHER -> {}

\* C11: a stage completes only if the stages producing what it reads have
\* completed earlier on the instance (mask_notches, smooth_data and
\* design_target_curve after load_data, design_filter after an inversion,
\* simulate_response and export_results after design_filter); called out of
\* order it ends with an error.
C11_StagesNeedProducers ==
    [][ret'.op # "" =>
          /\ (ret'.outcome = "ok" => Producers(ret'.op) \subseteq hist.completed)
          /\ (~(Producers(ret'.op) \subseteq hist.completed) =>
                ret'.outcome \notin {"ok", ""} /\ lin' = lin)]_vars

\* C11, the case: simulate_response was called on loaded data before any
\* filter was designed and raised.
C11_SimulateBeforeDesign ==
    /\ ret.op = "simulate_response"
    /\ "load_data" \in hist.completed
    /\ "design_filter" \notin hist.completed
    /\ ret.outcome = "TypeError"
    /\ IsNone(lin.filter_coeffs)

\* C12: design_target_curve writes only target_mag, and what it writes is
\* determined by the frequency grid and the bandpass alone, whatever
\* mask_notches / smooth_data have done before; mask_notches and smooth_data
\* in turn leave target_mag as it is.
C12_TargetIndependent ==
    [][/\ (ret'.op = "design_target_curve" /\ ret'.outcome = "ok") =>
             /\ lin'.target_mag =
                   Arr(TargetCurveDesigner_design_curve(lin.bandpass, lin.data.frequencies))
             /\ lin' = [lin EXCEPT !.target_mag = lin'.target_mag]
       /\ ret'.op \in ConditioningStages => lin'.target_mag = lin.target_mag]_vars

\* C12, the case: the target curve was designed, under the Butterworth
\* bandpass, after a conditioning stage had written a curve that differs from
\* the raw measurement.
C12_TargetAfterConditioning ==
    /\ ret.op = "design_target_curve"
    /\ ret.outcome = "ok"
    /\ lin.bandpass.type = "butterworth"
    /\ IsArr(hist.conditioned)
    /\ lin.target_filter_response_db = hist.conditioned
    /\ hist.conditioned # Arr(lin.data.db_values)
    /\ IsArr(lin.target_mag)

\* ------------------------------------------------- two instances in one process
StageOps ==
    {"load_data", "mask_notches", "smooth_data", "design_target_curve", InvertOp,
     "design_filter", "simulate_response", "plot_results", "export_results"}

\* The method op called on the instance l by a caller with the locals c.
StageCall(op, l, c, file, path) ==
    CASE op = "load_data" -> Linearizer_load_data(l, file)
      [] op = "mask_notches" -> Linearizer_mask_notches(l)
      [] op = "smooth_data" -> Linearizer_smooth_data(l)
      [] op = "design_target_curve" -> Linearizer_design_target_curve(l)
      [] op = InvertOp -> Linearizer_calculate_inverse_response(l)
      [] op = "design_filter" -> Linearizer_design_filter(l, c.inverse_response)
      [] op = "simulate_response" -> Linearizer_simulate_response(l)
      [] op = "plot_results" -> Linearizer_plot_results(l, c.equalized_db)
      [] OTHER -> Linearizer_export_results(l, path)

\* The caller's locals after the call op ended as r.
Bound(op, r, c) ==
    IF r.outcome # "ok" THEN c
    ELSE IF op = InvertOp THEN [c EXCEPT !.inverse_response = r.value]
    ELSE IF op = "simulate_response" THEN [c EXCEPT !.equalized_db = r.value]
    ELSE c

\* A designer that keeps the coefficients it designed, for every instance
\* that is handed the same designer object.
CoefficientsOnDesigner(r, that) ==
    [this |-> r.lin, that |-> [that EXCEPT !.filter_coeffs = r.lin.filter_coeffs]]

\* The two instances after a method call on one of them ended as r: a method
\* assigns attributes of self only, and the objects every instance is handed
\* by the factories (the designers of FilterDesignerFactory._methods, the
\* loaders of DataLoaderFactory._loaders) have no attributes to write.
InstancesAfter(r, that) == [this |-> r.lin, that |-> that]

PeerConstructed(r) ==
    peer' = [peer EXCEPT !.phase = IF r.outcome = "ok" THEN "ready" ELSE "failed",
                         !.lin = r.lin]

\* other = Linearizer(other_config)
PeerConstruct ==
    /\ peer.phase = "new"
    /\ PeerConstructed(Linearizer_init(peer.config))
    /\ UNCHANGED <<config, files, phase, lin, ret, hist, caller, calls, probe>>

PeerCalled(op, r, h) ==
    /\ peer' = [peer EXCEPT !.lin = h.this, !.caller = Bound(op, r, peer.caller)]
    /\ lin' = h.that
    /\ calls' = IF r.outcome = "ok" THEN calls + 1 ELSE calls

PeerCalling(op, r) == PeerCalled(op, r, InstancesAfter(r, lin))

\* other.<stage>(...)
PeerCall ==
    /\ peer.phase = "ready"
    /\ calls < MaxCalls
    /\ \E op \in StageOps, f \in files, path \in ExportPaths :
          PeerCalling(op, StageCall(op, peer.lin, peer.caller, f, path))
    /\ UNCHANGED <<config, files, phase, ret, hist, caller, probe>>

\* The configurations of the second instance: that of the first, and one
\* with the other variant on every axis.
PeerConfigs == {MainConfig, Config("null", "octave", "simple", "null", "firwin2", InverseParams)}

InitPair ==
    /\ config = MainConfig
    /\ files = FilesWith(NotchDb(GridLen))
    /\ phase = "new"
    /\ lin = NoLinearizer
    /\ ret = NoCall
    /\ hist = NoHistory
    /\ caller = [inverse_response |-> NoneV, equalized_db |-> NoneV]
    /\ calls = 0
    /\ probe = NoProbe
    /\ \E c \in PeerConfigs : peer = [NoPeer EXCEPT !.phase = "new", !.config = c]

NextPair ==
    \/ Next
    \/ PeerConstruct
    \/ PeerCall

SpecPair == InitPair /\ [][NextPair]_vars

\* C13: a stage call (or the construction) of one instance leaves every
\* field of the other instance and its configuration unchanged, under any
\* interleaving of the calls on the two.
C13_InstancesIsolated ==
    [][/\ ret' # ret => peer' = peer
       /\ peer' # peer => (lin' = lin /\ config' = config /\ caller' = caller)]_vars

\* C13, the case: both instances hold a measurement, the second has designed
\* a filter and the first has none.
C13_PeerDesignedAlone ==
    /\ phase = "ready"
    /\ peer.phase = "ready"
    /\ ~IsNone(lin.data)
    /\ IsNone(lin.filter_coeffs)
    /\ ~IsNone(peer.lin.filter_coeffs)

\* C14: load_data on a path with an unrecognised extension, or on a file that
\* does not parse, ends with a ValueError and leaves the instance (the
\* measurement loaded before and every intermediate field) as it was; a load
\* that completes has read a well-formed .json file.
C14_FailedLoadKeepsState ==
    [][ret'.op = "load_data" =>
          /\ ret'.outcome # "ok" =>
                (ret'.outcome = "ValueError" /\ lin' = lin /\ caller' = caller)
          /\ ret'.outcome = "ok" =>
                \E f \in files :
                    /\ Lower(f.ext) = "json"
                    /\ f.content.tag = "json"
                    /\ lin'.data.frequencies = f.content.f_hz
                    /\ lin'.data.db_values = f.content.db]_vars

\* C14, the case: a .json file that does not parse was loaded on an instance
\* that held a measurement and a conditioned response, and both are in place.
C14_ParseErrorAfterLoad ==
    /\ ret.op = "load_data"
    /\ ret.outcome = "ValueError"
    /\ ret.detail = <<"JSON loading error">>
    /\ ~IsNone(lin.data)
    /\ IsArr(lin.target_filter_response_db)

\* The notch depth _detect_notches looks for peaks in: smoothed - magnitudes.
ProbeDepth ==
    [i \in DOMAIN probe.magnitudes |->
        FractionalOctaveSmoother_smooth(probe.params.smooth_fraction, probe.frequencies,
                                        probe.magnitudes).value.v[i]
        - probe.magnitudes[i]]

\* Bin i (0-based i - 1) lies in the closed range [floor(left), ceil(right)],
\* clamped to the grid, of the peak p of the depth curve.
InClosedRange(i, p) ==
    /\ MaskStart(PeakWidth(ProbeDepth, p, probe.params.rel_height_pct)) <= i - 1
    /\ i - 1 <= MaskEnd(PeakWidth(ProbeDepth, p, probe.params.rel_height_pct),
                        Len(probe.frequencies) - 1)

\* C15: the keep-mask of the prominence masker is false for every bin in the
\* closed range [floor(left_bound), ceil(right_bound)] of every detected
\* peak, and true for every other bin.
C15_MaskClosedRange ==
    (probe.fn = "prominence" /\ probe.other.outcome = "ok") =>
        \A i \in DOMAIN probe.frequencies :
            probe.other.value.v[i] =
                ~(\E p \in FindPeaks(ProbeDepth, probe.params) : InClosedRange(i, p))

\* C15, the case: a peak was detected whose right bound rounds up to a bin of
\* the grid, and the mask keeps that bin.
C15_RightBoundKept ==
    /\ probe.fn = "prominence"
    /\ probe.other.outcome = "ok"
    /\ \E p \in FindPeaks(ProbeDepth, probe.params) :
          \E i \in DOMAIN probe.frequencies :
              /\ i - 1 = MaskEnd(PeakWidth(ProbeDepth, p, probe.params.rel_height_pct),
                                 Len(probe.frequencies) - 1)
              /\ probe.other.value.v[i]

\* C16: apply_notch_mask of the prominence masker returns the bins outside
\* every detected notch unchanged and the bins inside a notch raised by
\* attenuation_db, whatever the input level in dB.
C16_NotchesBoosted ==
    (probe.fn = "prominence" /\ probe.result.outcome = "ok") =>
        \A i \in DOMAIN probe.magnitudes :
            probe.result.value.v[i] =
                IF PromNotchMasker_detect_notches(probe.params, probe.frequencies,
                                                  probe.magnitudes).value.v[i]
                THEN probe.magnitudes[i]
                ELSE probe.magnitudes[i] + probe.params.attenuation_db

\* C16, the case: a bin inside a detected notch comes back lower than it went
\* in.
C16_NotchDeepened ==
    /\ probe.fn = "prominence"
    /\ probe.result.outcome = "ok"
    /\ \E i \in DOMAIN probe.magnitudes :
          /\ ~PromNotchMasker_detect_notches(probe.params, probe.frequencies,
                                             probe.magnitudes).value.v[i]
          /\ probe.result.value.v[i] < probe.magnitudes[i]

\* The frequency f falls inside the band the smoother centres on fc.
InBandOf(smoother, f, fc) ==
    IF smoother.type = "octave" THEN OctaveBand(smoother.fraction, f, fc)
    ELSE ERBBand(f, fc)

\* Some input sample of the band centred on frequency i is <= y, and some is >= y.
WithinBand(smoother, freqs, mags, i, y) ==
    /\ \E j \in DOMAIN mags : InBandOf(smoother, freqs[j], freqs[i]) /\ mags[j] <= y
    /\ \E j \in DOMAIN mags : InBandOf(smoother, freqs[j], freqs[i]) /\ mags[j] >= y

C18_TargetPeakIsOne ==
    (probe.fn = "design_curve" /\ probe.result.outcome = "ok") =>
        /\ SeqMax(probe.result.value.v) = Scale
        /\ probe.params.type = "null" =>
              \A i \in DOMAIN probe.frequencies : probe.result.value.v[i] = Scale

\* C18, the case: design_curve under a Butterworth bandpass has returned a
\* curve none of whose samples is a magnitude (each is 0 / 0).
C18_NothingToNormalise ==
    /\ probe.fn = "design_curve"
    /\ probe.params.type = "butterworth"
    /\ probe.result.outcome = "ok"
    /\ \A i \in DOMAIN probe.frequencies : probe.result.value.v[i] < 0

\* C19: calculate_inverse_response called on an instance whose data is None
\* raises ValueError("Data must be loaded first!").
C19_InvertWithoutDataValueError ==
    [][(ret'.op = InvertOp /\ IsNone(lin.data)) =>
          /\ ret'.outcome = "ValueError"
          /\ ret'.detail = <<"Data must be loaded first!">>]_vars

\* C19, the case: calculate_inverse_response was called before any
\* measurement was loaded and raised on the attribute read of None.
C19_InvertOnNoneData ==
    /\ ret.op = InvertOp
    /\ IsNone(lin.data)
    /\ ret.outcome = "AttributeError"
    /\ ret.detail = <<"NoneType", "frequencies">>

\* The smoothed-measurement field holds the configured smoother applied to the
\* raw dB values of the measurement the instance holds.
SmoothedOf(l, r) == r.outcome = "ok" /\ l.smoothed_db_values = r.value

SmoothedIsCurrent ==
    /\ ~IsNone(lin.data)
    /\ ~IsNone(lin.smoothed_db_values)
    /\ SmoothedOf(lin, Smooth(lin.smoother, lin.data.frequencies, lin.data.db_values))

\* C20: once a sequence of stage calls has included a completed smooth_data,
\* the smoothed-measurement field equals the configured smoother applied to
\* the raw measurement dB values, whatever mask_notches did before or after
\* and whatever the conditioned-response field holds.
C20_SmoothedFollowsRaw == hist.smoothed => SmoothedIsCurrent

\* C20 as amended: smooth_data leaves in the smoothed-measurement field the
\* configured smoother applied to the raw dB values of the measurement loaded
\* at that call; no other call on the instance writes the field, and none but
\* a completed load_data changes the measurement or the smoother, so the
\* field keeps that value whatever mask_notches does and whatever the
\* conditioned-response field holds, also across a load_data of another
\* measurement.
C20_SmoothedFollowsLoadedRaw ==
    [][phase = "ready" =>
          /\ (ret'.op = "smooth_data" /\ ret'.outcome = "ok") => SmoothedIsCurrent'
          /\ ~(ret'.op = "smooth_data" /\ ret'.outcome = "ok") =>
                lin'.smoothed_db_values = lin.smoothed_db_values
          /\ ~(ret'.op = "load_data" /\ ret'.outcome = "ok") =>
                lin'.data = lin.data /\ lin'.smoother = lin.smoother]_vars

\* C20, the case: mask_notches and smooth_data have both completed, in this
\* order, under a smoother and a masker that both change the measurement, and
\* the conditioned-response field differs from the smoothed measurement.
C20_SmoothedAfterMask ==
    /\ hist.smoothed
    /\ hist.chained
    /\ ret.op = "smooth_data"
    /\ SmoothedIsCurrent
    /\ lin.smoothed_db_values # lin.target_filter_response_db
    /\ lin.smoothed_db_values # Arr(lin.data.db_values)

=============================================================================
